---- MODULE Spec2Model ----
(***************************************************************************)
(* Workflow Execution Engine of Nocodile (core/workflow_engine.py) over    *)
(* the store declared in core/models.py and the graph editing handlers of  *)
(* core/views.py.                                                          *)
(*                                                                         *)
(* The store is the database: workflow nodes, connections, approval tasks, *)
(* the state history log and each document's current_state.  A worker is   *)
(* one request: it loads an ApprovalTask object into memory, calls         *)
(* WorkflowEngine.execute_approval_action on that object and gets a        *)
(* history row or an error back.  Everything a call writes is written      *)
(* inside transaction.atomic, so it reaches the store as one step or not   *)
(* at all; what the call reads, it reads before that step.                 *)
(*                                                                         *)
(* Text values the engine computes on (labels, keys, comments) are         *)
(* sequences of one-character strings; identifiers and state keys, which   *)
(* are only compared, are strings.                                         *)
(***************************************************************************)
EXTENDS Integers, Sequences, FiniteSets, TLC

VARIABLES nodes, conns, nConns, docs, tasks, nTasks, history, now, edits, wk,
          created, call, users

vars == <<nodes, conns, nConns, docs, tasks, nTasks, history, now, edits, wk, created, call, users>>

(***************************************************************************)
(* Bounds                                                                  *)
(***************************************************************************)
MaxTasks == 2
MaxEdits == 1

Workers == {"w1", "w2"}
Users == {"u1", "u2"}

\* auth Group rows and user.groups
Groups == {"g1", "g2"}
UserGroups(u) == IF u = "u1" THEN {"g1"} ELSE {}

\* the authenticated user of each request
Actor(w) == IF w = "w1" THEN "u1" ELSE "u2"
Documents == {"d1", "d2"}

None == "None"

(***************************************************************************)
(* Text                                                                    *)
(***************************************************************************)
Upper ==
  <<"A", "B", "C", "D", "E", "F", "G", "H", "I", "J", "K", "L", "M",
    "N", "O", "P", "Q", "R", "S", "T", "U", "V", "W", "X", "Y", "Z">>

Lower ==
  <<"a", "b", "c", "d", "e", "f", "g", "h", "i", "j", "k", "l", "m",
    "n", "o", "p", "q", "r", "s", "t", "u", "v", "w", "x", "y", "z">>

\* str.lower() on one character
LowerChar(c) ==
  IF \E i \in DOMAIN Upper : Upper[i] = c
  THEN Lower[CHOOSE i \in DOMAIN Upper : Upper[i] = c]
  ELSE c

\* DeriveKey without lower()
DeriveKeySpacesOnly(label) ==
  [i \in DOMAIN label |-> IF label[i] = " " THEN "_" ELSE label[i]]

\* label.lower().replace(' ', '_')
DeriveKey(label) ==
  [i \in DOMAIN label |->
     IF LowerChar(label[i]) = " " THEN "_" ELSE LowerChar(label[i])]

\* Python truth value of a str: only '' is false
Truthy(s) == s # <<>>

\* a comment made of white space only
IsBlank(s) == \A i \in DOMAIN s : s[i] = " "

Approve == <<"A", "p", "p", "r", "o", "v", "e">>
Reject == <<"R", "e", "j", "e", "c", "t">>
DefaultLabel == <<"A", "c", "t", "i", "o", "n">>

\* dict.get(k, d)
EmptyDict == [k \in {} |-> TRUE]
Get(cfg, k, d) == IF k \in DOMAIN cfg THEN cfg[k] ELSE d

\* JSON and Python values that may be of several types, tagged with the type
IntV(n) == [t |-> "int", v |-> n]
BigInt == [t |-> "bigint"]
StrV(s) == [t |-> "str", s |-> s]
NoneV == [t |-> "none"]
ListV(rows) == [t |-> "list", rows |-> rows]
DictV(d) == [t |-> "dict", d |-> d]

(***************************************************************************)
(* Workflow graph                                                          *)
(***************************************************************************)
ApprovalNodes == {"A1", "A2"}
StateNodes == {"S1", "S2"}
AllNodes == ApprovalNodes \cup StateNodes

node_type(n) == IF n \in StateNodes THEN "state" ELSE "approval"

NodeLabel(n) ==
  CASE n = "S1" -> "UH Approved"
    [] n = "S2" -> "UH Rejected"
    [] n = "A1" -> "Unit Head Approval"
    [] OTHER -> "HR Approval"

\* S2 is a node as POST workflow_nodes_list creates it when the request
\* carries no config: a state node without stateKey
NodeConfig(n) ==
  CASE n = "S1" -> [stateKey |-> "UH_APPROVED"]
    [] n = "S2" -> EmptyDict
    [] n = "A1" -> [stateKey |-> "UH_PENDING",
                    defaultApprovers |-> <<[type |-> "user", userId |-> "u1"],
                                           [type |-> "role", roleId |-> "g1"]>>]
    [] OTHER -> [stateKey |-> "HR_PENDING",
                 defaultApprovers |-> <<[type |-> "user", userId |-> "u2"]>>]

InitConns ==
  << [id |-> 1, source_node |-> "A1", target_node |-> "S1",
      action_config |-> [label |-> Approve, requiresComment |-> FALSE, order |-> 1]],
     [id |-> 2, source_node |-> "A1", target_node |-> "S2",
      action_config |-> [label |-> Reject, requiresComment |-> TRUE, order |-> 2]],
     [id |-> 3, source_node |-> "A2", target_node |-> "S1",
      action_config |-> [label |-> Approve, requiresComment |-> FALSE, order |-> 1]] >>

RECURSIVE InsertByOrderAfterTies(_, _)
\* InsertByOrder that puts a behind the elements of its own order
InsertByOrderAfterTies(a, s) ==
  IF s = <<>> \/ a.order < Head(s).order
  THEN <<a>> \o s
  ELSE <<Head(s)>> \o InsertByOrderAfterTies(a, Tail(s))

RECURSIVE InsertByOrder(_, _)
\* a goes before the first element whose order is not smaller
InsertByOrder(a, s) ==
  IF s = <<>> \/ a.order <= Head(s).order
  THEN <<a>> \o s
  ELSE <<Head(s)>> \o InsertByOrder(a, Tail(s))

RECURSIVE SortByOrder(_)
\* list.sort(key=order): stable
SortByOrder(s) ==
  IF s = <<>> THEN <<>> ELSE InsertByOrder(Head(s), SortByOrder(Tail(s)))

ActionOf(conn) ==
  [connectionId |-> conn.id,
   key |-> DeriveKey(Get(conn.action_config, "label", DefaultLabel)),
   label |-> Get(conn.action_config, "label", DefaultLabel),
   requiresComment |-> Get(conn.action_config, "requiresComment", FALSE),
   order |-> Get(conn.action_config, "order", 1),
   targetNodeId |-> conn.target_node,
   targetState |-> Get(NodeConfig(conn.target_node), "stateKey", "")]

RECURSIVE ActionsOf(_)
ActionsOf(cs) ==
  IF cs = <<>> THEN <<>>
  ELSE IF node_type(Head(cs).target_node) # "state" THEN ActionsOf(Tail(cs))
  ELSE <<ActionOf(Head(cs))>> \o ActionsOf(Tail(cs))

get_available_actions(cs, approval_node) ==
  SortByOrder(ActionsOf(SelectSeq(cs, LAMBDA c : c.source_node = approval_node)))

(***************************************************************************)
(* Store rows                                                              *)
(***************************************************************************)
STATUS_CHOICES == {"pending", "completed", "cancelled", "expired"}

\* ApprovalTask.objects.create(..., status='pending') with the field defaults
NewTask(document, approval_node, available_actions) ==
  [document |-> document,
   workflow_node |-> approval_node,
   available_actions |-> available_actions,
   status |-> "pending",
   completed_by |-> None,
   completed_at |-> 0,
   action_taken |-> <<>>,
   comment |-> <<>>,
   assigned_to_users |-> {},
   assigned_to_roles |-> {},
   created_at |-> 0,
   due_date |-> NoneV]

NoTask == [NewTask(None, None, <<>>) EXCEPT !.status = "none"]

NoAction ==
  [connectionId |-> 0, key |-> <<>>, label |-> <<>>, requiresComment |-> FALSE,
   order |-> 0, targetNodeId |-> None, targetState |-> ""]

NoDocument == [id |-> None, current_state |-> ""]

NoResult == [kind |-> "none", status |-> "", row |-> 0]

IdleWorker ==
  [pc |-> "idle", tid |-> 0, task |-> NoTask, document |-> NoDocument,
   action_key |-> <<>>, user |-> None, comment |-> <<>>,
   action |-> NoAction, result |-> NoResult]

\* what the last call of create_approval_task gave its caller
NoCreate == [node |-> None, result |-> "none", task |-> 0]

\* no pure function of the engine has been called
NoCall == [fn |-> "none"]

\* the database as one value: what a transaction reads and writes
Store == [docs |-> docs, tasks |-> tasks, history |-> history]

(***************************************************************************)
(* WorkflowEngine.transition_to_state                                      *)
(***************************************************************************)
\* target_node.config.get('stateKey', target_node.label)
to_state_of(target_node) ==
  Get(NodeConfig(target_node), "stateKey", NodeLabel(target_node))

HistoryRow(db, document, target_node, transitioned_by, action_key, action_label, comment, metadata) ==
  [id |-> Len(db.history) + 1,
   document |-> document.id,
   from_state |-> document.current_state,
   to_state |-> to_state_of(target_node),
   transitioned_by |-> transitioned_by,
   action_key |-> action_key,
   action_label |-> action_label,
   comment |-> comment,
   workflow_node |-> target_node,
   metadata |-> metadata]

\* transition_to_state that rewrites the document's latest row when it has one
transition_rewriting_row(db, document, target_node, transitioned_by, action_key, action_label, comment, metadata) ==
  LET rows == {i \in DOMAIN db.history : db.history[i].document = document.id}
      last == CHOOSE i \in rows : \A j \in rows : j <= i
      row == HistoryRow(db, document, target_node, transitioned_by, action_key,
                        action_label, comment, metadata)
  IN [db EXCEPT
        !.docs = [@ EXCEPT ![document.id] = to_state_of(target_node)],
        !.history = IF rows = {} THEN Append(@, row)
                    ELSE [@ EXCEPT ![last] = [row EXCEPT !.id = last]]]

transition_to_state(db, document, target_node, transitioned_by, action_key, action_label, comment, metadata) ==
  [db EXCEPT
     !.docs = [@ EXCEPT ![document.id] = to_state_of(target_node)],
     !.history = Append(@, HistoryRow(db, document, target_node,
                                      transitioned_by, action_key,
                                      action_label, comment, metadata))]

(***************************************************************************)
(* WorkflowEngine.execute_approval_action                                  *)
(***************************************************************************)
\* FindAction that keeps the last entry whose key is action_key
FindActionLast(available_actions, action_key) ==
  LET hits == {i \in DOMAIN available_actions :
                 available_actions[i].key = action_key}
  IN IF hits = {} THEN 0
     ELSE CHOOSE i \in hits : \A j \in hits : j <= i

\* the first entry of available_actions whose key is action_key, 0 if none
FindAction(available_actions, action_key) ==
  LET hits == {i \in DOMAIN available_actions :
                 available_actions[i].key = action_key}
  IN IF hits = {} THEN 0
     ELSE CHOOSE i \in hits : \A j \in hits : i <= j

\* if action.get('requiresComment') and not comment
CommentMissing(action, comment) ==
  action.requiresComment /\ ~Truthy(comment)

\* CompletedTask that sets the status and nothing else
CompletedTaskStatusOnly(task, action_key, user, comment, at) ==
  [task EXCEPT !.status = "completed"]

\* the task object as execute_approval_action leaves it before save()
CompletedTask(task, action_key, user, comment, at) ==
  [task EXCEPT !.status = "completed",
               !.completed_by = user,
               !.completed_at = at,
               !.action_taken = action_key,
               !.comment = comment]

\* approval_task.save(): writes every field of the object to its row
SaveTask(db, tid, task) ==
  [db EXCEPT !.tasks =
     [t \in DOMAIN db.tasks \cup {tid} |-> IF t = tid THEN task ELSE db.tasks[t]]]

\* Siblings without the workflow_node filter
SiblingsAnyNode(db, tid, task) ==
  {t \in DOMAIN db.tasks :
     /\ t # tid
     /\ db.tasks[t].document = task.document
     /\ db.tasks[t].status = "pending"}

\* filter(document, workflow_node, status='pending').exclude(id)
Siblings(db, tid, task) ==
  {t \in DOMAIN db.tasks :
     /\ t # tid
     /\ db.tasks[t].document = task.document
     /\ db.tasks[t].workflow_node = task.workflow_node
     /\ db.tasks[t].status = "pending"}

\* .update(status='cancelled')
CancelSiblings(db, tid, task) ==
  [db EXCEPT !.tasks =
     [t \in DOMAIN db.tasks |->
        IF t \in Siblings(db, tid, task)
        THEN [db.tasks[t] EXCEPT !.status = "cancelled"]
        ELSE db.tasks[t]]]

\* ExecuteWritesOf that writes only when the actor is one of the task's users
ExecuteWritesForAssignee(db, r, at) ==
  LET db1 == transition_to_state(db, r.document, r.action.targetNodeId, r.user,
                                 r.action_key, r.action.label, r.comment,
                                 [approval_task_id |-> r.tid,
                                  approval_node_id |-> r.task.workflow_node])
      done == CompletedTask(r.task, r.action_key, r.user, r.comment, at)
      db2 == SaveTask(db1, r.tid, done)
  IN IF r.user \in r.task.assigned_to_users
     THEN CancelSiblings(db2, r.tid, done)
     ELSE db

\* the writes of the call whose arguments and loaded rows are r, in program
\* order
ExecuteWritesOf(db, r, at) ==
  LET db1 == transition_to_state(db, r.document, r.action.targetNodeId, r.user,
                                 r.action_key, r.action.label, r.comment,
                                 [approval_task_id |-> r.tid,
                                  approval_node_id |-> r.task.workflow_node])
      done == CompletedTask(r.task, r.action_key, r.user, r.comment, at)
      db2 == SaveTask(db1, r.tid, done)
  IN CancelSiblings(db2, r.tid, done)

\* ExecuteWrites without approval_task.save()
ExecuteWritesNoSave(db, w, at) ==
  LET r == wk[w]
      db1 == transition_to_state(db, r.document, r.action.targetNodeId, r.user,
                                 r.action_key, r.action.label, r.comment,
                                 [approval_task_id |-> r.tid,
                                  approval_node_id |-> r.task.workflow_node])
      done == CompletedTask(r.task, r.action_key, r.user, r.comment, at)
  IN CancelSiblings(db1, r.tid, done)

\* the writes of worker w's call
ExecuteWrites(db, w, at) == ExecuteWritesOf(db, wk[w], at)

\* foreign keys of the rows a call wrote, checked when the transaction commits
ForeignKeysHold(db, existing) ==
  /\ \A t \in DOMAIN db.tasks : db.tasks[t].workflow_node \in existing
  /\ \A i \in DOMAIN db.history : db.history[i].workflow_node \in existing \cup {None}

\* Rollback without the transaction: the writes made so far stay
NoRollback(before, after) == after

\* @transaction.atomic: a call that raises leaves the store as it found it
Rollback(before, after) == before

(***************************************************************************)
(* Initial store: the configured graph, documents without a state, no task *)
(***************************************************************************)
\* Document.current_state of a document no transition has touched
InitialDocuments == [d \in Documents |-> ""]

Init ==
  /\ users = Users
  /\ nodes = AllNodes
  /\ conns = InitConns
  /\ nConns = Len(InitConns)
  /\ docs = InitialDocuments
  /\ tasks = <<>>
  /\ nTasks = 0
  /\ history = <<>>
  /\ now = 1
  /\ edits = 0
  /\ wk = [w \in Workers |-> IdleWorker]
  /\ created = NoCreate
  /\ call = NoCall

(***************************************************************************)
(* WorkflowEngine.create_approval_task                                     *)
(***************************************************************************)
\* due_date: `if timeout_days:` and `if timeout:` test truth, so None and 0
\* both fall through; days are counted in units of the clock
due_date_of(at, timeout_days, config) ==
  IF timeout_days \notin {NoneV, IntV(0)} THEN IntV(at + timeout_days.v)
  ELSE IF config # EmptyDict /\ Get(config, "timeoutDays", NoneV) \notin {NoneV, IntV(0)}
       THEN IntV(at + Get(config, "timeoutDays", NoneV).v)
       ELSE NoneV

\* the users and roles of the node's defaultApprovers entries that exist
get_approvers(approval_node) ==
  LET default_approvers == Get(NodeConfig(approval_node), "defaultApprovers", <<>>)
  IN [users |-> {default_approvers[i].userId : i \in
                   {j \in DOMAIN default_approvers :
                      /\ default_approvers[j].type = "user"
                      /\ default_approvers[j].userId \in users}},
      roles |-> {default_approvers[i].roleId : i \in
                   {j \in DOMAIN default_approvers :
                      /\ default_approvers[j].type = "role"
                      /\ default_approvers[j].roleId \in Groups}}]

\* CreateApprovalTask without the check of available_actions
CreateApprovalTaskNoCheck(document, approval_node) ==
  /\ nTasks < MaxTasks
  /\ approval_node \in nodes
  /\ LET available_actions == get_available_actions(conns, approval_node)
         approvers == get_approvers(approval_node)
     IN /\ tasks' = [t \in DOMAIN tasks \cup {nTasks + 1} |->
                       IF t = nTasks + 1
                       THEN [NewTask(document, approval_node, available_actions)
                               EXCEPT !.assigned_to_users = approvers.users,
                                      !.assigned_to_roles = approvers.roles,
                                      !.created_at = now,
                                      !.due_date = due_date_of(now, NoneV, NodeConfig(approval_node))]
                       ELSE tasks[t]]
        /\ nTasks' = nTasks + 1
        /\ created' = [node |-> approval_node, result |-> "ok", task |-> nTasks + 1]
  /\ UNCHANGED <<nodes, conns, nConns, docs, history, now, edits, wk, call, users>>

CreateApprovalTask(document, approval_node) ==
  /\ nTasks < MaxTasks
  /\ approval_node \in nodes
  /\ LET available_actions == get_available_actions(conns, approval_node)
         approvers == get_approvers(approval_node)
     IN IF available_actions = <<>>
        THEN \* ValueError: no outgoing connections to state nodes
             /\ created' = [node |-> approval_node, result |-> "ValueError", task |-> 0]
             /\ UNCHANGED <<tasks, nTasks>>
        ELSE /\ tasks' = [t \in DOMAIN tasks \cup {nTasks + 1} |->
                            IF t = nTasks + 1
                            THEN [NewTask(document, approval_node, available_actions)
                                    EXCEPT !.assigned_to_users = approvers.users,
                                           !.assigned_to_roles = approvers.roles,
                                           !.created_at = now,
                                      !.due_date = due_date_of(now, NoneV, NodeConfig(approval_node))]
                            ELSE tasks[t]]
             /\ nTasks' = nTasks + 1
             /\ created' = [node |-> approval_node, result |-> "ok",
                            task |-> nTasks + 1]
  /\ UNCHANGED <<nodes, conns, nConns, docs, history, now, edits, wk, call, users>>

(***************************************************************************)
(* A request fetches the task it will act on                               *)
(***************************************************************************)
LoadTask(w, tid) ==
  /\ wk[w].pc = "idle"
  /\ Actor(w) \in users
  /\ tid \in DOMAIN tasks
  /\ wk' = [wk EXCEPT ![w] = [IdleWorker EXCEPT !.pc = "loaded",
                                                !.tid = tid,
                                                !.task = tasks[tid]]]
  /\ UNCHANGED <<nodes, conns, nConns, docs, tasks, nTasks, history, now, edits, created, call, users>>

(***************************************************************************)
(* execute_approval_action up to the call of transition_to_state: the      *)
(* checks on the task object and the reads of the target node, the         *)
(* approval node and the document                                          *)
(***************************************************************************)
Failed(kind, status) == [kind |-> kind, status |-> status, row |-> 0]

\* MatchedAction looking the key up in the graph as it is now
MatchedActionLive(task, action_key) ==
  LET live == get_available_actions(conns, task.workflow_node)
      i == FindAction(live, action_key)
  IN IF i = 0 THEN NoAction ELSE live[i]

\* for available_action in approval_task.available_actions: first key match
MatchedAction(task, action_key) ==
  LET i == FindAction(task.available_actions, action_key)
  IN IF i = 0 THEN NoAction ELSE task.available_actions[i]

\* ExecuteOutcome that only turns away completed tasks
ExecuteOutcomeCompletedOnly(task, action_key, comment, existing) ==
  LET action == MatchedAction(task, action_key)
  IN IF task.status = "completed" THEN Failed("InvalidStateError", task.status)
     ELSE IF action = NoAction THEN Failed("ActionNotFoundError", "")
     ELSE IF CommentMissing(action, comment) THEN Failed("CommentRequiredError", "")
     ELSE IF action.targetNodeId \notin existing
          THEN Failed("TargetNodeMissingError", "")
     ELSE IF task.workflow_node \notin existing THEN Failed("DoesNotExist", "")
     ELSE NoResult

\* ExecuteOutcome that does not look the target node up
ExecuteOutcomeNoTargetCheck(task, action_key, comment, existing) ==
  LET action == MatchedAction(task, action_key)
  IN IF task.status # "pending" THEN Failed("InvalidStateError", task.status)
     ELSE IF action = NoAction THEN Failed("ActionNotFoundError", "")
     ELSE IF CommentMissing(action, comment) THEN Failed("CommentRequiredError", "")
     ELSE IF task.workflow_node \notin existing THEN Failed("DoesNotExist", "")
     ELSE NoResult

\* the error the call raises before it writes, NoResult if it goes on
ExecuteOutcome(task, action_key, comment, existing) ==
  LET action == MatchedAction(task, action_key)
  IN IF task.status # "pending" THEN Failed("InvalidStateError", task.status)
     ELSE IF action = NoAction THEN Failed("ActionNotFoundError", "")
     ELSE IF CommentMissing(action, comment) THEN Failed("CommentRequiredError", "")
     ELSE IF action.targetNodeId \notin existing
          THEN Failed("TargetNodeMissingError", "")
     ELSE IF task.workflow_node \notin existing THEN Failed("DoesNotExist", "")
     ELSE NoResult

ExecuteBegin(w, action_key, user, comment) ==
  /\ wk[w].pc = "loaded"
  /\ LET task == wk[w].task
         outcome == ExecuteOutcome(task, action_key, comment, nodes)
     IN wk' = [wk EXCEPT ![w] =
                 [@ EXCEPT !.action_key = action_key,
                           !.user = user,
                           !.comment = comment,
                           !.result = outcome,
                           !.pc = IF outcome = NoResult THEN "intx" ELSE "done",
                           !.action = IF outcome = NoResult
                                      THEN MatchedAction(task, action_key)
                                      ELSE NoAction,
                           !.document = IF outcome = NoResult
                                        THEN [id |-> task.document,
                                              current_state |-> docs[task.document]]
                                        ELSE NoDocument]]
  /\ UNCHANGED <<nodes, conns, nConns, docs, tasks, nTasks, history, now, edits, created, call, users>>

(***************************************************************************)
(* execute_approval_action from transition_to_state to the commit          *)
(***************************************************************************)
\* what an unprotected call would have left behind when it raised
PartialWrites(db, w) ==
  LET r == wk[w]
      db1 == transition_to_state(db, r.document, r.action.targetNodeId, r.user,
                                 r.action_key, r.action.label, r.comment,
                                 [approval_task_id |-> r.tid,
                                  approval_node_id |-> r.task.workflow_node])
  IN IF r.action.targetNodeId \notin nodes
     THEN [db EXCEPT !.docs = db1.docs]
     ELSE db1

ExecuteCommit(w) ==
  /\ wk[w].pc = "intx"
  /\ LET r == wk[w]
         written == ExecuteWrites(Store, w, now)
         ok == ForeignKeysHold(written, nodes)
         out == IF ok THEN written ELSE Rollback(Store, PartialWrites(Store, w))
     IN /\ docs' = out.docs
        /\ tasks' = out.tasks
        /\ history' = out.history
        /\ now' = IF ok THEN now + 1 ELSE now
        /\ wk' = [wk EXCEPT ![w] =
                    [@ EXCEPT !.pc = "done",
                              !.task = IF ok
                                       THEN CompletedTask(r.task, r.action_key,
                                                          r.user, r.comment, now)
                                       ELSE r.task,
                              !.result = IF ok
                                         THEN [kind |-> "ok", status |-> "",
                                               row |-> Len(written.history)]
                                         ELSE Failed("IntegrityError", "")]]
  /\ UNCHANGED <<nodes, conns, nConns, nTasks, edits, created, call, users>>

(***************************************************************************)
(* Graph editing (core/views.py)                                           *)
(***************************************************************************)
\* AddConnection that also recomputes the snapshot of the source node's tasks
AddConnectionRefreshing(source_node, target_node) ==
  /\ edits < MaxEdits
  /\ source_node \in nodes
  /\ target_node \in nodes
  /\ conns' = Append(conns, [id |-> nConns + 1,
                             source_node |-> source_node,
                             target_node |-> target_node,
                             action_config |-> EmptyDict])
  /\ nConns' = nConns + 1
  /\ edits' = edits + 1
  /\ tasks' = [t \in DOMAIN tasks |->
                 IF tasks[t].workflow_node = source_node
                 THEN [tasks[t] EXCEPT !.available_actions =
                         get_available_actions(conns', source_node)]
                 ELSE tasks[t]]
  /\ UNCHANGED <<nodes, docs, nTasks, history, now, wk, created, call, users>>

\* POST workflow_connections_list: action_config takes its default
AddConnection(source_node, target_node) ==
  /\ edits < MaxEdits
  /\ source_node \in nodes
  /\ target_node \in nodes
  /\ conns' = Append(conns, [id |-> nConns + 1,
                             source_node |-> source_node,
                             target_node |-> target_node,
                             action_config |-> EmptyDict])
  /\ nConns' = nConns + 1
  /\ edits' = edits + 1
  /\ UNCHANGED <<nodes, docs, tasks, nTasks, history, now, wk, created, call, users>>

\* DeleteNode that leaves the tasks of the node in the store
DeleteNodeKeepingTasks(n) ==
  /\ edits < MaxEdits
  /\ n \in nodes
  /\ nodes' = nodes \ {n}
  /\ conns' = SelectSeq(conns, LAMBDA c : c.source_node # n /\ c.target_node # n)
  /\ history' = [i \in DOMAIN history |->
                   IF history[i].workflow_node = n
                   THEN [history[i] EXCEPT !.workflow_node = None]
                   ELSE history[i]]
  /\ edits' = edits + 1
  /\ UNCHANGED <<nConns, docs, tasks, nTasks, now, wk, created, call, users>>

\* DELETE workflow_node_detail with the on_delete rules of the models
DeleteNode(n) ==
  /\ edits < MaxEdits
  /\ n \in nodes
  /\ nodes' = nodes \ {n}
  /\ conns' = SelectSeq(conns, LAMBDA c : c.source_node # n /\ c.target_node # n)
  /\ tasks' = [t \in {u \in DOMAIN tasks : tasks[u].workflow_node # n} |-> tasks[t]]
  /\ history' = [i \in DOMAIN history |->
                   IF history[i].workflow_node = n
                   THEN [history[i] EXCEPT !.workflow_node = None]
                   ELSE history[i]]
  /\ edits' = edits + 1
  /\ UNCHANGED <<nConns, docs, nTasks, now, wk, created, call, users>>

\* DELETE user_detail, between the requests of that user, with the on_delete
\* rules of the models: completed_by and transitioned_by are SET_NULL and the
\* rows of assigned_to_users go with the user
DeleteUser(u) ==
  /\ edits < MaxEdits
  /\ u \in users
  /\ \A w \in Workers : Actor(w) = u => wk[w].pc \notin {"loaded", "intx"}
  /\ users' = users \ {u}
  /\ tasks' = [t \in DOMAIN tasks |->
                 [tasks[t] EXCEPT
                    !.completed_by = IF @ = u THEN None ELSE @,
                    !.assigned_to_users = @ \ {u}]]
  /\ history' = [i \in DOMAIN history |->
                   IF history[i].transitioned_by = u
                   THEN [history[i] EXCEPT !.transitioned_by = None]
                   ELSE history[i]]
  /\ edits' = edits + 1
  /\ UNCHANGED <<nodes, conns, nConns, docs, nTasks, now, wk, created, call>>

(***************************************************************************)
(* The sweeper outside the engine that expires overdue tasks               *)
(***************************************************************************)
SweepExpired(tid) ==
  /\ tid \in DOMAIN tasks
  /\ tasks[tid].status = "pending"
  /\ tasks' = [tasks EXCEPT ![tid].status = "expired"]
  /\ UNCHANGED <<nodes, conns, nConns, docs, nTasks, history, now, edits, wk, created, call, users>>

ActionKeys == {DeriveKey(Approve), DeriveKey(Reject), DeriveKey(DefaultLabel)}

Comments == {<<>>, <<" ">>, <<"o", "k">>}

Next ==
  \/ \E d \in Documents, n \in ApprovalNodes : CreateApprovalTask(d, n)
  \/ \E w \in Workers, tid \in 1..MaxTasks : LoadTask(w, tid)
  \/ \E w \in Workers, k \in ActionKeys, c \in Comments :
       ExecuteBegin(w, k, Actor(w), c)
  \/ \E w \in Workers : ExecuteCommit(w)
  \/ \E t \in {"S2", "A2"} : AddConnection("A1", t)
  \/ \E n \in {"S1", "A1"} : DeleteNode(n)
  \/ \E u \in Users : DeleteUser(u)
  \/ \E tid \in 1..MaxTasks : SweepExpired(tid)

Spec == Init /\ [][Next]_vars

(***************************************************************************)
(* Every variable but the connections and the call record, as Init has it  *)
(***************************************************************************)
AtRest ==
  /\ users = Users
  /\ nodes = AllNodes
  /\ docs = InitialDocuments
  /\ tasks = <<>>
  /\ nTasks = 0
  /\ history = <<>>
  /\ now = 1
  /\ edits = 0
  /\ wk = [w \in Workers |-> IdleWorker]
  /\ created = NoCreate

Untouched ==
  UNCHANGED <<nodes, conns, nConns, docs, tasks, nTasks, history, now, edits, wk, created, users>>

(***************************************************************************)
(* get_available_actions on the approval nodes of any small graph          *)
(***************************************************************************)
MaxDrawn == 4

\* the action_config values of the drawn connections
DrawnConfigs == {EmptyDict, [order |-> 2], [label |-> Approve, order |-> 1]}

DrawnEnds == [s : ApprovalNodes, t : {"S1", "A2"}, c : DrawnConfigs]

\* connections in the order of their created_at
DrawnGraphs ==
  UNION {{[i \in 1..n |-> [id |-> i,
                           source_node |-> f[i].s,
                           target_node |-> f[i].t,
                           action_config |-> f[i].c]] : f \in [1..n -> DrawnEnds]}
         : n \in 0..MaxDrawn}

InitDerive ==
  /\ conns \in DrawnGraphs
  /\ nConns = Len(conns)
  /\ call = NoCall
  /\ AtRest

Derive(approval_node) ==
  /\ call = NoCall
  /\ call' = [fn |-> "get_available_actions",
              approval_node |-> approval_node,
              out |-> get_available_actions(conns, approval_node)]
  /\ Untouched

NextDerive == \E n \in ApprovalNodes : Derive(n)

SpecDerive == InitDerive /\ [][NextDerive]_vars

(***************************************************************************)
(* execute_approval_action on a task of A1 whose snapshot was taken from   *)
(* any small set of connections to S1 and S2, labelled or not              *)
(***************************************************************************)
MaxSame == 3

\* action_config values whose labels derive the same key, and values without
\* a label
SameConfigs ==
  {EmptyDict, [order |-> 2], [label |-> Approve, order |-> 1],
   [label |-> DeriveKey(Approve), order |-> 1]}

SameGraphs ==
  UNION {{[i \in 1..n |-> [id |-> i,
                           source_node |-> "A1",
                           target_node |-> f[i].t,
                           action_config |-> f[i].c]] :
            f \in [1..n -> [t : StateNodes, c : SameConfigs]]}
         : n \in 1..MaxSame}

InitSame ==
  /\ users = Users
  /\ nodes = AllNodes
  /\ conns \in SameGraphs
  /\ nConns = Len(conns)
  /\ docs = InitialDocuments
  /\ tasks = <<[NewTask("d1", "A1", get_available_actions(conns, "A1"))
                  EXCEPT !.created_at = 1]>>
  /\ nTasks = 1
  /\ history = <<>>
  /\ now = 1
  /\ edits = 0
  /\ wk = [w \in Workers |-> IdleWorker]
  /\ created = [node |-> "A1", result |-> "ok", task |-> 1]
  /\ call = NoCall

NextSame ==
  \/ LoadTask("w1", 1)
  \/ \E k \in ActionKeys, c \in Comments : ExecuteBegin("w1", k, Actor("w1"), c)
  \/ ExecuteCommit("w1")

SpecSame == InitSame /\ [][NextSame]_vars

(***************************************************************************)
(* The key of an action, on any short label                                *)
(***************************************************************************)
MaxLabel == 3

Chars == {"A", "Z", "b", " ", "_"}

Labels == UNION {[1..n -> Chars] : n \in 0..MaxLabel}

InitKey ==
  /\ conns = InitConns
  /\ nConns = Len(conns)
  /\ call \in {[fn |-> "label", label |-> l] : l \in Labels}
  /\ AtRest

KeyOf ==
  /\ call.fn = "label"
  /\ call' = [fn |-> "DeriveKey", label |-> call.label, out |-> DeriveKey(call.label)]
  /\ Untouched

NextKey == KeyOf

SpecKey == InitKey /\ [][NextKey]_vars

(***************************************************************************)
(* WorkflowEngine.check_state_permissions                                  *)
(*                                                                         *)
(* A call record carries the arguments and the rows the call reads: the    *)
(* workflows of the document's type, the document's current_state and      *)
(* submitter and the permissions of the state nodes' config.               *)
(***************************************************************************)
\* the columns of the Workflow model
WorkflowFields ==
  {"id", "document_type", "name", "is_default", "created_at", "updated_at"}

\* state nodes as the queryset gives them: Meta.ordering created_at
StateNodesInOrder == <<"S1", "S2">>

PermissionTypes == {"view", "edit_main_form", "edit_child_forms", "delete"}

ViewPerms ==
  [includeSubmitter : BOOLEAN, includeApprovers : BOOLEAN, users : {{}, {"u2"}},
   roles : {{}, {"g1"}}]

\* the allow-lists of the child forms are drawn together
ChildLists ==
  {[users |-> {}, roles |-> {}], [users |-> {"u1"}, roles |-> {}],
   [users |-> {}, roles |-> {"g2"}], [users |-> {"u1"}, roles |-> {"g1"}]}

DrawnPermissions ==
  {[view |-> v, editMainForm |-> m, editMainFormUsers |-> mu,
    editMainFormRoles |-> mr, editChildForms |-> ch,
    editChildFormsUsers |-> l.users, editChildFormsRoles |-> l.roles] :
     v \in ViewPerms, m \in BOOLEAN, mu \in {{}, {"u1"}, {"u2"}},
     mr \in {{}, {"g1"}}, ch \in BOOLEAN, l \in ChildLists}

\* a pending task of d1 at A1, assigned as get_approvers assigns it
AssignedTask ==
  [NewTask("d1", "A1", get_available_actions(InitConns, "A1"))
     EXCEPT !.assigned_to_users = get_approvers("A1").users,
            !.assigned_to_roles = get_approvers("A1").roles,
            !.created_at = 1]

\* a task of d1 that is no longer pending and was assigned to a role only
RoleTask ==
  [AssignedTask EXCEPT !.status = "cancelled", !.assigned_to_users = {}]

PermissionCalls ==
  [fn : {"args"},
   workflows : {<<>>, <<"W1">>},
   document : {"d1"},
   current_state : {"UH_APPROVED", "UH Rejected", "DRAFT"},
   submitted_by : Users,
   user : Users,
   permission_type : PermissionTypes,
   permissions : DrawnPermissions]

\* node.config of the call's store
ConfigOf(c, n) ==
  IF node_type(n) = "state"
  THEN [permissions |-> c.permissions] @@ NodeConfig(n)
  ELSE NodeConfig(n)

\* the first state node whose config.get('stateKey') is current_state
CurrentStateNode(c) ==
  LET hits == {i \in DOMAIN StateNodesInOrder :
                 Get(ConfigOf(c, StateNodesInOrder[i]), "stateKey", None)
                   = c.current_state}
  IN IF hits = {} THEN None
     ELSE StateNodesInOrder[CHOOSE i \in hits : \A j \in hits : i <= j]

Returned(value) == [raised |-> None, value |-> value]

Raised(error) == [raised |-> error, value |-> FALSE]

\* the view branch: submitter, approver by user or by role, roles, users
ViewGranted(c, permissions) ==
  LET view_perms == Get(permissions, "view", EmptyDict)
  IN \/ Get(view_perms, "includeSubmitter", FALSE) /\ c.submitted_by = c.user
     \/ /\ Get(view_perms, "includeApprovers", FALSE)
        /\ \E t \in DOMAIN tasks :
             /\ tasks[t].document = c.document
             /\ \/ c.user \in tasks[t].assigned_to_users
                \/ tasks[t].assigned_to_roles \cap UserGroups(c.user) # {}
     \/ Get(view_perms, "roles", {}) \cap UserGroups(c.user) # {}
     \/ c.user \in Get(view_perms, "users", {})

\* EditGranted that is content with either allow-list
EditGrantedByEitherList(c, permissions, flag, roles, allowed) ==
  LET allowed_roles == Get(permissions, roles, {})
      allowed_users == Get(permissions, allowed, {})
  IN /\ Get(permissions, flag, FALSE)
     /\ \/ allowed_roles = {} /\ allowed_users = {}
        \/ allowed_roles \cap UserGroups(c.user) # {}
        \/ c.user \in allowed_users

\* the edit branches: the flag, then the roles restriction if there is one,
\* then the users restriction if there is one
EditGranted(c, permissions, flag, roles, allowed) ==
  LET allowed_roles == Get(permissions, roles, {})
      allowed_users == Get(permissions, allowed, {})
  IN /\ Get(permissions, flag, FALSE)
     /\ allowed_roles # {} => allowed_roles \cap UserGroups(c.user) # {}
     /\ allowed_users # {} => c.user \in allowed_users

\* the body of the try block
PermissionEval(c) ==
  IF "is_active" \notin WorkflowFields
  THEN \* workflows.filter(is_active=True): no such column
       Raised("FieldError")
  ELSE IF c.workflows = <<>> THEN Returned(FALSE)
  ELSE IF CurrentStateNode(c) = None THEN Returned(FALSE)
  ELSE LET permissions == Get(ConfigOf(c, CurrentStateNode(c)), "permissions", EmptyDict)
       IN CASE c.permission_type = "view" ->
                 Returned(ViewGranted(c, permissions))
            [] c.permission_type = "edit_main_form" ->
                 Returned(EditGranted(c, permissions, "editMainForm", "editMainFormRoles",
                             "editMainFormUsers"))
            [] c.permission_type = "edit_child_forms" ->
                 Returned(EditGranted(c, permissions, "editChildForms", "editChildFormsRoles",
                             "editChildFormsUsers"))
            [] OTHER -> Returned(FALSE)

\* ExceptHandler that grants
ExceptHandlerGrants(e) == [raised |-> None, value |-> TRUE]

\* ExceptHandler that lets the error through
ExceptHandlerReraises(e) == e

\* except Exception: print, return False
ExceptHandler(e) == Returned(FALSE)

check_state_permissions(c) ==
  LET e == PermissionEval(c)
  IN IF e.raised # None THEN ExceptHandler(e) ELSE e

InitPerm ==
  /\ users = Users
  /\ conns = InitConns
  /\ nConns = Len(conns)
  /\ nodes = AllNodes
  /\ docs = InitialDocuments
  /\ tasks \in {<<>>, <<AssignedTask>>, <<RoleTask>>}
  /\ nTasks = Len(tasks)
  /\ history = <<>>
  /\ now = 1
  /\ edits = 0
  /\ wk = [w \in Workers |-> IdleWorker]
  /\ created = NoCreate
  /\ call \in PermissionCalls

CheckStatePermissions ==
  /\ call.fn = "args"
  /\ call' = [fn |-> "check_state_permissions",
              args |-> call,
              faulted |-> PermissionEval(call).raised # None,
              out |-> check_state_permissions(call)]
  /\ Untouched

NextPerm == CheckStatePermissions

SpecPerm == InitPerm /\ [][NextPerm]_vars

(***************************************************************************)
(* The due date of create_approval_task, on any clock, timeout_days and    *)
(* node config                                                             *)
(***************************************************************************)
MaxDays == 3

DrawnTimeouts == {NoneV} \cup {IntV(n) : n \in 0..MaxDays}

DrawnNodeConfigs ==
  {EmptyDict, [approverType |-> "role"]}
    \cup {[approverType |-> "role", timeoutDays |-> IntV(n)] : n \in 0..MaxDays}

DueCalls ==
  [fn : {"args"}, at : 1..MaxDays, timeout_days : DrawnTimeouts,
   config : DrawnNodeConfigs]

InitDue ==
  /\ conns = InitConns
  /\ nConns = Len(conns)
  /\ AtRest
  /\ call \in DueCalls

DueDate ==
  /\ call.fn = "args"
  /\ call' = [fn |-> "create_approval_task",
              args |-> call,
              due_date |-> due_date_of(call.at, call.timeout_days, call.config)]
  /\ Untouched

NextDue == DueDate

SpecDue == InitDue /\ [][NextDue]_vars

(***************************************************************************)
(* WorkflowEngine.get_user_pending_approvals, called without a document    *)
(* type, on any small table of tasks                                       *)
(***************************************************************************)
MaxListed == 2

\* the foreign keys of the Document model
DocumentRelations == {"document_type", "parent_document", "workflow_state", "created_by"}

TaskShapes ==
  [status : STATUS_CHOICES,
   assigned_to_users : {{}, {"u1"}, {"u1", "u2"}},
   assigned_to_roles : {{}, {"g1"}, {"g1", "g2"}}]

\* task rows in the order of their creation
DrawnTasks ==
  UNION {{[i \in 1..n |->
             [NewTask("d1", "A1", <<>>)
                EXCEPT !.status = f[i].status,
                       !.assigned_to_users = f[i].assigned_to_users,
                       !.assigned_to_roles = f[i].assigned_to_roles,
                       !.created_at = i]] : f \in [1..n -> TaskShapes]}
         : n \in 0..MaxListed}

\* the rows of a relation as a LEFT OUTER JOIN sees them: NULL when there is none
JoinSide(rows) == IF rows = {} THEN {None} ELSE rows

\* how many rows of the joined tables the combined WHERE keeps for task t
JoinedRows(table, t, user) ==
  Cardinality({p \in JoinSide(table[t].assigned_to_users)
                       \X JoinSide(table[t].assigned_to_roles) :
                 \/ p[1] = user /\ table[t].status = "pending"
                 \/ p[2] \in UserGroups(user) /\ table[t].status = "pending"})

RECURSIVE Repeat(_, _)
Repeat(x, n) == IF n = 0 THEN <<>> ELSE <<x>> \o Repeat(x, n - 1)

RECURSIVE NewestFirst(_, _, _)
\* order_by('-created_at') over the joined rows; created_at grows with the id
NewestFirst(table, t, user) ==
  IF t = 0 THEN <<>>
  ELSE Repeat(t, JoinedRows(table, t, user)) \o NewestFirst(table, t - 1, user)

\* Distinct that keeps every joined row
KeepDuplicates(rows) == rows

\* .distinct(): a task once, at its first place
Distinct(rows) ==
  SelectSeq([i \in DOMAIN rows |-> IF \E j \in 1..(i - 1) : rows[j] = rows[i]
                                    THEN 0 ELSE rows[i]],
            LAMBDA x : x # 0)

get_user_pending_approvals(table, user) ==
  IF ~({"document_type", "submitted_by"} \subseteq DocumentRelations)
  THEN \* select_related('document__submitted_by'): no such relation
       [raised |-> "FieldError", value |-> <<>>]
  ELSE [raised |-> None, value |-> Distinct(NewestFirst(table, Len(table), user))]

InitList ==
  /\ users = Users
  /\ conns = InitConns
  /\ nConns = Len(conns)
  /\ nodes = AllNodes
  /\ docs = InitialDocuments
  /\ tasks \in DrawnTasks
  /\ nTasks = Len(tasks)
  /\ history = <<>>
  /\ now = 1
  /\ edits = 0
  /\ wk = [w \in Workers |-> IdleWorker]
  /\ created = NoCreate
  /\ call = NoCall

GetUserPendingApprovals(user) ==
  /\ call = NoCall
  /\ call' = [fn |-> "get_user_pending_approvals",
              user |-> user,
              out |-> get_user_pending_approvals(tasks, user)]
  /\ Untouched

NextList == \E u \in Users : GetUserPendingApprovals(u)

SpecList == InitList /\ [][NextList]_vars

(***************************************************************************)
(* Condition evaluation (core/views.py)                                    *)
(*                                                                         *)
(* JSON values carry their Python type.  An int beyond the range of float  *)
(* (10**400, say) is BigInt.  A field path is the sequence of its parts    *)
(* between the dots, and so is a key of the data.                          *)
(***************************************************************************)

Digits == <<"0", "1", "2", "3", "4", "5", "6", "7", "8", "9">>

IsNumeral(s) == s # <<>> /\ \A i \in DOMAIN s : \E k \in DOMAIN Digits : Digits[k] = s[i]

RECURSIVE NumeralValue(_)
NumeralValue(s) ==
  IF s = <<>> THEN 0
  ELSE NumeralValue(SubSeq(s, 1, Len(s) - 1)) * 10
         + (CHOOSE k \in DOMAIN Digits : Digits[k] = s[Len(s)]) - 1

\* float(v): the number, or the error float raises
Float(v) ==
  CASE v.t = "int" -> [err |-> None, num |-> v.v]
    [] v.t = "bigint" -> [err |-> "OverflowError", num |-> 0]
    [] v.t = "str" -> IF IsNumeral(v.s) THEN [err |-> None, num |-> NumeralValue(v.s)]
                      ELSE [err |-> "ValueError", num |-> 0]
    [] OTHER -> [err |-> "TypeError", num |-> 0]

\* Python truth value
IsTrue(v) ==
  CASE v.t = "int" -> v.v # 0
    [] v.t = "bigint" -> TRUE
    [] v.t = "str" -> v.s # <<>>
    [] v.t = "list" -> v.rows # <<>>
    [] v.t = "dict" -> DOMAIN v.d # {}
    [] OTHER -> FALSE

\* except (ValueError, TypeError): return False
Caught(err) ==
  IF err \in {"ValueError", "TypeError"} THEN Returned(FALSE) ELSE Raised(err)

OrderingOperators == {"<", "<=", ">", ">="}

NumCompare(l, operator, r) ==
  CASE operator = "<" -> l < r
    [] operator = "<=" -> l <= r
    [] operator = ">" -> l > r
    [] OTHER -> l >= r

evaluate_comparison(left, operator, right) ==
  IF operator = "=" THEN Returned(left.t = right.t /\ left = right)
  ELSE IF operator = "!=" THEN Returned(~(left.t = right.t /\ left = right))
  ELSE IF operator \in OrderingOperators
  THEN LET l == Float(left)
           r == Float(right)
       IN IF l.err # None THEN Caught(l.err)
          ELSE IF r.err # None THEN Caught(r.err)
          ELSE Returned(NumCompare(l.num, operator, r.num))
  ELSE Returned(FALSE)

\* row.get(field_key) if isinstance(row, dict) else None
FieldOf(row, field_key) ==
  IF row.t = "dict" THEN Get(row.d, field_key, NoneV) ELSE NoneV

RECURSIVE AnyRow(_, _, _, _)
AnyRow(rows, field_key, operator, target_value) ==
  IF rows = <<>> THEN Returned(FALSE)
  ELSE LET r == evaluate_comparison(FieldOf(Head(rows), field_key), operator, target_value)
       IN IF r.raised # None THEN r
          ELSE IF r.value THEN Returned(TRUE)
          ELSE AnyRow(Tail(rows), field_key, operator, target_value)

RECURSIVE EveryRow(_, _, _, _)
EveryRow(rows, field_key, operator, target_value) ==
  IF rows = <<>> THEN Returned(TRUE)
  ELSE LET r == evaluate_comparison(FieldOf(Head(rows), field_key), operator, target_value)
       IN IF r.raised # None THEN r
          ELSE IF ~r.value THEN Returned(FALSE)
          ELSE EveryRow(Tail(rows), field_key, operator, target_value)

RECURSIVE NoRow(_, _, _, _)
NoRow(rows, field_key, operator, target_value) ==
  IF rows = <<>> THEN Returned(TRUE)
  ELSE LET r == evaluate_comparison(FieldOf(Head(rows), field_key), operator, target_value)
       IN IF r.raised # None THEN r
          ELSE IF r.value THEN Returned(FALSE)
          ELSE NoRow(Tail(rows), field_key, operator, target_value)

RECURSIVE SumRows(_, _, _)
\* total += float(val) if val else 0, errors of float swallowed
SumRows(rows, field_key, total) ==
  IF rows = <<>> THEN [err |-> None, num |-> total]
  ELSE LET row == Head(rows)
           val == IF row.t = "dict" THEN Get(row.d, field_key, IntV(0)) ELSE IntV(0)
           f == Float(val)
       IN IF row.t # "dict" \/ ~IsTrue(val) \/ f.err \in {"ValueError", "TypeError"}
          THEN SumRows(Tail(rows), field_key, total)
          ELSE IF f.err # None THEN f
          ELSE SumRows(Tail(rows), field_key, total + f.num)

evaluate_condition(condition, data) ==
  LET field_path == condition.field
      operator == condition.operator
      target_value == condition.value
      array_mode == condition.arrayMode
      dotted == Len(field_path) > 1
      section_key == IF dotted
                     THEN IF Head(field_path) = "" THEN <<>> ELSE <<Head(field_path)>>
                     ELSE condition.sectionKey
      field_key == IF dotted THEN Tail(field_path) ELSE field_path
  IN IF section_key = <<>> \/ array_mode = None
     THEN evaluate_comparison(Get(data, field_key, NoneV), operator, target_value)
     ELSE LET rows == Get(data, section_key, ListV(<<>>))
          IN IF rows.t # "list" THEN Returned(FALSE)
             ELSE CASE array_mode = "any" ->
                         AnyRow(rows.rows, field_key, operator, target_value)
                    [] array_mode = "all" ->
                         IF rows.rows = <<>> THEN Returned(FALSE)
                         ELSE EveryRow(rows.rows, field_key, operator, target_value)
                    [] array_mode = "none" ->
                         NoRow(rows.rows, field_key, operator, target_value)
                    [] array_mode = "count" ->
                         evaluate_comparison(IntV(Len(rows.rows)), operator, target_value)
                    [] array_mode = "sum" ->
                         LET total == SumRows(rows.rows, field_key, 0)
                         IN IF total.err # None THEN Raised(total.err)
                            ELSE evaluate_comparison(IntV(total.num), operator, target_value)
                    [] OTHER -> Returned(FALSE)

Operators == {"=", "!=", "~"} \cup OrderingOperators

ScalarValues ==
  {IntV(100), IntV(150), BigInt, StrV(<<"a", "b", "c">>), StrV(<<"1", "5", "0">>), NoneV}

Price(v) == DictV(<<"price">> :> v)

ItemLists ==
  {<<>>, <<Price(IntV(100))>>, <<Price(IntV(100)), Price(IntV(150))>>,
   <<Price(IntV(50)), Price(StrV(<<"a", "b", "c">>)), NoneV, Price(IntV(100))>>,
   <<Price(BigInt)>>}

DrawnConditions ==
  [field : {<<"amount">>, <<"items", "price">>},
   operator : Operators,
   value : ScalarValues,
   arrayMode : {None, "any", "all", "none", "count", "sum"},
   sectionKey : {<<>>, <<"items">>}]

DrawnData ==
  {a @@ i @@ p : a \in {EmptyDict} \cup {<<"amount">> :> v : v \in ScalarValues},
                 i \in {EmptyDict, <<"items">> :> StrV(<<"a", "b", "c">>)}
                         \cup {<<"items">> :> ListV(l) : l \in ItemLists},
                 p \in {EmptyDict, <<"price">> :> IntV(100)}}

InitCond ==
  /\ conns = InitConns
  /\ nConns = Len(conns)
  /\ call \in [fn : {"args"}, condition : DrawnConditions, data : DrawnData]
  /\ AtRest

EvaluateCondition ==
  /\ call.fn = "args"
  /\ call' = [fn |-> "evaluate_condition",
              condition |-> call.condition,
              data |-> call.data,
              out |-> evaluate_condition(call.condition, call.data)]
  /\ Untouched

NextCond == EvaluateCondition

SpecCond == InitCond /\ [][NextCond]_vars

(***************************************************************************)
(* Helpers of the properties                                               *)
(***************************************************************************)
TERMINAL == {"completed", "cancelled", "expired"}

\* history rows written by resolutions of task tid
RowsOfTask(tid) ==
  {i \in DOMAIN history : history[i].metadata.approval_task_id = tid}

RowsOfDocument(d) == {i \in DOMAIN history : history[i].document = d}

\* worker w returns from its call in this step
Returns(w) == wk[w].pc \in {"loaded", "intx"} /\ wk'[w].pc = "done"

\* worker w passes from the loaded task to the checks of the call in this step
Enters(w) == wk[w].pc = "loaded" /\ wk'[w].pc # "loaded"

StoreUnchanged == UNCHANGED <<docs, tasks, history>>

\* the call of w names an action of its snapshot, brings a real comment and
\* the nodes and rows it refers to still exist
ValidCall(w) ==
  /\ wk[w].tid \in DOMAIN tasks
  /\ MatchedAction(wk[w].task, wk[w].action_key) # NoAction
  /\ ~IsBlank(wk[w].comment)
  /\ MatchedAction(wk[w].task, wk[w].action_key).targetNodeId \in nodes

(***************************************************************************)
(* C1: of two calls on the same task with different valid action keys, a   *)
(* call that returns while the other one succeeded has failed with         *)
(* InvalidStateError: the two never both succeed.                          *)
(***************************************************************************)
C1_ExactlyOneSucceeds ==
  \A w1 \in Workers, w2 \in Workers :
    ( /\ w1 # w2
      /\ wk[w1].pc = "done" /\ wk[w2].pc = "done"
      /\ wk[w1].tid = wk[w2].tid
      /\ wk[w1].action_key # wk[w2].action_key
      /\ ValidCall(w1) /\ ValidCall(w2)
      /\ wk[w1].result.kind = "ok" )
    => wk[w2].result.kind = "InvalidStateError"

(***************************************************************************)
(* C2: once two calls on the same task with different valid keys have      *)
(* returned and the task is completed, exactly one history row belongs to  *)
(* the task and, while that row is the document's latest, current_state is *)
(* the target state of the action recorded in action_taken.                *)
(***************************************************************************)
C2_OneRowWinnerState ==
  \A w1 \in Workers, w2 \in Workers :
    ( /\ w1 # w2
      /\ wk[w1].pc = "done" /\ wk[w2].pc = "done"
      /\ wk[w1].tid = wk[w2].tid
      /\ wk[w1].action_key # wk[w2].action_key
      /\ ValidCall(w1) /\ ValidCall(w2)
      /\ tasks[wk[w1].tid].status = "completed" )
    => LET tid == wk[w1].tid
           d == tasks[tid].document
           won == MatchedAction(tasks[tid], tasks[tid].action_taken)
       IN /\ Cardinality(RowsOfTask(tid)) = 1
          /\ (\A i \in RowsOfDocument(d) : \A j \in RowsOfTask(tid) : i <= j)
               => docs[d] = won.targetState

C6_NonPendingRejected ==
  [][\A w \in Workers :
       (Enters(w) /\ wk[w].task.status # "pending") =>
         /\ wk'[w].pc = "done"
         /\ wk'[w].result = Failed("InvalidStateError", wk[w].task.status)
         /\ StoreUnchanged]_vars

\* a call with a key of the snapshot was rejected for a cancelled task
C6_Witness ==
  \E w \in Workers :
    /\ wk[w].result = Failed("InvalidStateError", "cancelled")
    /\ MatchedAction(wk[w].task, wk[w].action_key) # NoAction

(***************************************************************************)
(* C7: a call on a pending task whose matched action requires a comment    *)
(* returns CommentRequiredError when the comment is empty or blank.        *)
(***************************************************************************)
C7_BlankCommentRejected ==
  [][\A w \in Workers :
       ( /\ Enters(w)
         /\ wk[w].task.status = "pending"
         /\ MatchedAction(wk[w].task, wk'[w].action_key).requiresComment
         /\ IsBlank(wk'[w].comment) )
       => wk'[w].result = Failed("CommentRequiredError", "")]_vars

(***************************************************************************)
(* C8: a call on a pending task with an action key that no entry of the    *)
(* task's available_actions carries returns ActionNotFoundError and writes *)
(* nothing, whatever the graph's connections derive now.                   *)
(***************************************************************************)
C8_UnknownKeyRejected ==
  [][\A w \in Workers :
       ( /\ Enters(w)
         /\ wk[w].task.status = "pending"
         /\ \A i \in DOMAIN wk[w].task.available_actions :
              wk[w].task.available_actions[i].key # wk'[w].action_key )
       => /\ wk'[w].pc = "done"
          /\ wk'[w].result = Failed("ActionNotFoundError", "")
          /\ StoreUnchanged]_vars

\* the rejected key is one the graph derives now for the task's node
C8_Witness ==
  \E w \in Workers :
    /\ wk[w].result.kind = "ActionNotFoundError"
    /\ \E i \in DOMAIN get_available_actions(conns, wk[w].task.workflow_node) :
         get_available_actions(conns, wk[w].task.workflow_node)[i].key
           = wk[w].action_key

(***************************************************************************)
(* C9: a call on a pending task with a matched action and the comment it   *)
(* requires returns TargetNodeMissingError and writes nothing when the     *)
(* action's targetNodeId is no node of the store any more.                 *)
(***************************************************************************)
C9_MissingTargetRejected ==
  [][\A w \in Workers :
       ( /\ Enters(w)
         /\ wk[w].task.status = "pending"
         /\ \E i \in DOMAIN wk[w].task.available_actions :
              /\ wk[w].task.available_actions[i].key = wk'[w].action_key
              /\ \A j \in 1..(i - 1) :
                   wk[w].task.available_actions[j].key # wk'[w].action_key
              /\ wk[w].task.available_actions[i].requiresComment
                   => ~IsBlank(wk'[w].comment)
              /\ wk[w].task.available_actions[i].targetNodeId \notin nodes )
       => /\ wk'[w].pc = "done"
          /\ wk'[w].result = Failed("TargetNodeMissingError", "")
          /\ StoreUnchanged]_vars

\* the target was a node when the task was created and the task is still there
C9_Witness ==
  \E w \in Workers :
    /\ wk[w].result.kind = "TargetNodeMissingError"
    /\ wk[w].tid \in DOMAIN tasks
    /\ tasks[wk[w].tid].status = "pending"

C12_NoExitsNoTask ==
  [][(created' # created /\ get_available_actions(conns, created'.node) = <<>>)
       => /\ created'.result = "ValueError"
          /\ tasks' = tasks
          /\ nTasks' = nTasks]_vars

\* the node lost its only exit while tasks of other nodes were in the store
C12_Witness ==
  /\ created.result = "ValueError"
  /\ created.node \in nodes
  /\ \E t \in DOMAIN tasks : tasks[t].assigned_to_users # {}

C14_OnePerStateConnection ==
  call.fn = "get_available_actions" =>
    LET out == call.out
        ids == {conns[i].id : i \in
                  {j \in DOMAIN conns :
                     /\ conns[j].source_node = call.approval_node
                     /\ node_type(conns[j].target_node) = "state"}}
    IN /\ Len(out) = Cardinality(ids)
       /\ {out[i].connectionId : i \in DOMAIN out} = ids
       /\ \A i \in DOMAIN out, j \in DOMAIN out :
            i < j => \/ out[i].order < out[j].order
                     \/ /\ out[i].order = out[j].order
                        /\ out[i].connectionId < out[j].connectionId

\* two actions tie, a later connection sorts first, one connection is left out
C14_Witness ==
  /\ call.fn = "get_available_actions"
  /\ Len(call.out) = 3
  /\ call.out[1].order = call.out[2].order
  /\ call.out[1].connectionId > call.out[3].connectionId
  /\ \E i \in DOMAIN conns :
       /\ conns[i].source_node = call.approval_node
       /\ node_type(conns[i].target_node) # "state"

(***************************************************************************)
(* C15: the key derived from a label has the label's length, an underscore *)
(* wherever the label has a space, the lower-case letter wherever it has   *)
(* an upper-case one and the label's own character everywhere else; and    *)
(* deriving a key from that key gives the key back.                        *)
(***************************************************************************)
C15_KeyOfLabel ==
  call.fn = "DeriveKey" =>
    LET label == call.label
        out == call.out
    IN /\ DOMAIN out = DOMAIN label
       /\ \A i \in DOMAIN label :
            /\ label[i] = " " => out[i] = "_"
            /\ \A k \in DOMAIN Upper : label[i] = Upper[k] => out[i] = Lower[k]
            /\ (label[i] # " " /\ \A k \in DOMAIN Upper : label[i] # Upper[k])
                 => out[i] = label[i]
       /\ \A l \in Labels : l = label => DeriveKey(l) = out
       /\ DeriveKey(out) = out

\* a label with an upper-case letter, a space and an underscore
C15_Witness ==
  /\ call.fn = "DeriveKey"
  /\ call.label = <<"A", " ", "_">>
  /\ call.out = <<"a", "_", "_">>

(***************************************************************************)
(* C16: a view check by the document's submitter returns true whenever the *)
(* document's type has a workflow and the state node of current_state has  *)
(* view.includeSubmitter set, whatever the other permission fields are.    *)
(***************************************************************************)
C16_SubmitterMayView ==
  ( /\ call.fn = "check_state_permissions"
    /\ call.args.permission_type = "view"
    /\ call.args.workflows # <<>>
    /\ CurrentStateNode(call.args) # None
    /\ call.args.permissions.view.includeSubmitter
    /\ call.args.user = call.args.submitted_by )
  => call.out = Returned(TRUE)

(***************************************************************************)
(* C17: a check returns false, for every user and permission type, when    *)
(* the document's type has no workflow or no state node has current_state  *)
(* as its state key.                                                       *)
(***************************************************************************)
C17_NoNodeNoPermission ==
  ( /\ call.fn = "check_state_permissions"
    /\ \/ call.args.workflows = <<>>
       \/ \A n \in StateNodes :
            Get(ConfigOf(call.args, n), "stateKey", NodeLabel(n))
              # call.args.current_state )
  => call.out = Returned(FALSE)

\* nothing found for a user the permissions would let in
C17_Witness ==
  /\ call.fn = "check_state_permissions"
  /\ call.args.current_state = "DRAFT"
  /\ call.args.workflows # <<>>
  /\ call.args.permission_type = "view"
  /\ call.args.permissions.view.includeSubmitter
  /\ call.args.user = call.args.submitted_by
  /\ call.out = Returned(FALSE)

(***************************************************************************)
(* C18: a check whose evaluation raised returns false: the error does not  *)
(* reach the caller and no true comes out of it.                           *)
(***************************************************************************)
C18_FaultMeansFalse ==
  (call.fn = "check_state_permissions" /\ call.faulted)
    => call.out = Returned(FALSE)

\* the evaluation raised on a check everything else would have granted
C18_Witness ==
  /\ call.fn = "check_state_permissions"
  /\ call.faulted
  /\ call.args.workflows # <<>>
  /\ call.args.current_state = "UH_APPROVED"
  /\ call.args.permission_type = "edit_main_form"
  /\ call.args.permissions.editMainForm
  /\ call.args.permissions.editMainFormUsers = {}
  /\ call.out = Returned(FALSE)

C20_OrderingNeverRaises ==
  ( /\ call.fn = "evaluate_condition"
    /\ call.condition.field = <<"amount">>
    /\ call.condition.operator \in OrderingOperators )
  => LET left == Get(call.data, <<"amount">>, NoneV)
         right == call.condition.value
         NotNumber(v) == v.t = "none" \/ (v.t = "str" /\ ~IsNumeral(v.s))
     IN /\ call.out.raised = None
        /\ (left.t = "int" /\ right.t = "int") =>
             call.out.value = NumCompare(left.v, call.condition.operator, right.v)
        /\ (NotNumber(left) \/ NotNumber(right)) => call.out.value = FALSE

(***************************************************************************)
(* Helpers of the properties on conditions                                 *)
(***************************************************************************)
\* the call is an aggregate over the rows of items
OnRows(mode) ==
  /\ call.fn = "evaluate_condition"
  /\ call.condition.field = <<"items", "price">>
  /\ call.condition.arrayMode = mode
  /\ Get(call.data, <<"items">>, NoneV).t = "list"

\* the comparison of one row's value with the condition's value
RowResult(row) ==
  evaluate_comparison(FieldOf(row, <<"price">>), call.condition.operator,
                      call.condition.value)

Satisfies(row) == RowResult(row).raised = None /\ RowResult(row).value

RECURSIVE NumericTotal(_)
\* the sum of the rows' numbers, 0 for a row without one
NumericTotal(rows) ==
  IF rows = <<>> THEN 0
  ELSE (IF FieldOf(Head(rows), <<"price">>).t = "int"
        THEN FieldOf(Head(rows), <<"price">>).v ELSE 0) + NumericTotal(Tail(rows))

(***************************************************************************)
(* C21: on a sequence of rows, arrayMode all returns true exactly when the *)
(* sequence is not empty and every row satisfies the comparison, and       *)
(* arrayMode none returns true exactly when no row satisfies it.           *)
(***************************************************************************)
C21_AllAndNone ==
  (OnRows("all") \/ OnRows("none")) =>
    LET rows == call.data[<<"items">>].rows
    IN /\ call.out.raised = None
       /\ OnRows("all") =>
            call.out.value = (rows # <<>> /\ \A i \in DOMAIN rows : Satisfies(rows[i]))
       /\ OnRows("none") =>
            call.out.value = (\A i \in DOMAIN rows : ~Satisfies(rows[i]))

(***************************************************************************)
(* C22: on a sequence of rows, arrayMode sum returns, without raising, the *)
(* comparison of the total with the condition's value, where the total is  *)
(* the sum of the rows' numbers and a row without a number adds 0.         *)
(***************************************************************************)
C22_SumOfRows ==
  OnRows("sum") =>
    /\ call.out.raised = None
    /\ call.out = evaluate_comparison(IntV(NumericTotal(call.data[<<"items">>].rows)),
                                      call.condition.operator, call.condition.value)

(***************************************************************************)
(* C29: a condition that names a section and sets an arrayMode returns     *)
(* false, for every arrayMode, operator and value, when the data has no    *)
(* entry for the section or the entry is not a sequence.                   *)
(***************************************************************************)
C29_NoSequenceMeansFalse ==
  ( /\ call.fn = "evaluate_condition"
    /\ call.condition.field = <<"items", "price">>
    /\ call.condition.arrayMode # None
    /\ Get(call.data, <<"items">>, NoneV).t # "list" )
  => call.out = Returned(FALSE)

(***************************************************************************)
(* C30: a condition without arrayMode returns the comparison of the data's *)
(* entry under the field path as written (dotted or not, with or without   *)
(* a sectionKey) with the condition's value, None standing for a missing   *)
(* entry.                                                                  *)
(***************************************************************************)
C30_ScalarLookupAsWritten ==
  (call.fn = "evaluate_condition" /\ call.condition.arrayMode = None)
  => call.out = evaluate_comparison(Get(call.data, call.condition.field, NoneV),
                                    call.condition.operator, call.condition.value)

(***************************************************************************)
(* C23: the list of a user's pending approvals holds exactly the pending   *)
(* tasks assigned to the user or to a group of the user, each once, the    *)
(* newest first, and no task of another status.                            *)
(***************************************************************************)
C23_PendingOfUser ==
  call.fn = "get_user_pending_approvals" =>
    LET out == call.out.value
        mine == {t \in DOMAIN tasks :
                   /\ tasks[t].status = "pending"
                   /\ \/ call.user \in tasks[t].assigned_to_users
                      \/ tasks[t].assigned_to_roles \cap UserGroups(call.user) # {}}
    IN /\ call.out.raised = None
       /\ {out[i] : i \in DOMAIN out} = mine
       /\ \A i \in DOMAIN out, j \in DOMAIN out :
            i < j => tasks[out[i]].created_at > tasks[out[j]].created_at

(***************************************************************************)
(* C24: of two tasks of the same document and node that were pending at    *)
(* the same time (each created before the other was completed), at most    *)
(* one is completed.                                                       *)
(***************************************************************************)
C24_OneSiblingCompletes ==
  \A t \in DOMAIN tasks, s \in DOMAIN tasks :
    ( /\ t # s
      /\ tasks[t].document = tasks[s].document
      /\ tasks[t].workflow_node = tasks[s].workflow_node
      /\ tasks[s].created_at <= tasks[t].completed_at
      /\ tasks[t].created_at <= tasks[s].completed_at
      /\ tasks[t].status = "completed" )
    => tasks[s].status # "completed"

GrantedOn(c, n) ==
  LET permissions == Get(ConfigOf(c, n), "permissions", EmptyDict)
  IN CASE c.permission_type = "view" -> ViewGranted(c, permissions)
       [] c.permission_type = "edit_main_form" ->
            EditGranted(c, permissions, "editMainForm", "editMainFormRoles",
                             "editMainFormUsers")
       [] c.permission_type = "edit_child_forms" ->
            EditGranted(c, permissions, "editChildForms", "editChildFormsRoles",
                             "editChildFormsUsers")
       [] OTHER -> FALSE

(***************************************************************************)
(* C26: when the document's current_state is the state a transition to     *)
(* state node S writes (S's stateKey, or S's label when it has none) and   *)
(* the type has a workflow, the check answers what the permissions         *)
(* configured on S give.                                                   *)
(***************************************************************************)
C26_FindsNodeTransitionWrote ==
  \A S \in StateNodes :
    ( /\ call.fn = "check_state_permissions"
      /\ call.args.workflows # <<>>
      /\ to_state_of(S) = call.args.current_state )
    => call.out = Returned(GrantedOn(call.args, S))

(***************************************************************************)
(* C28: no step removes a node a pending task refers to: after every step  *)
(* each task that was pending before it is still in the store and so is    *)
(* its node.                                                               *)
(***************************************************************************)
C28_PendingKeepsNode ==
  [][\A t \in DOMAIN tasks :
       tasks[t].status = "pending"
       => (t \in DOMAIN tasks' /\ tasks[t].workflow_node \in nodes')]_vars

\* the task with other users and roles assigned to it
Reassigned(task, us, rs) ==
  [task EXCEPT !.assigned_to_users = us, !.assigned_to_roles = rs]

\* the store with other users and roles assigned to task tid
StoreReassigned(tid, us, rs) ==
  IF tid \in DOMAIN tasks
  THEN [Store EXCEPT !.tasks = [@ EXCEPT ![tid] = Reassigned(@, us, rs)]]
  ELSE Store

C31_DueDate ==
  call.fn = "create_approval_task"
  => LET a == call.args
     IN call.due_date =
          IF a.timeout_days # NoneV THEN IntV(a.at + a.timeout_days.v)
          ELSE IF "timeoutDays" \in DOMAIN a.config
               THEN IntV(a.at + a.config.timeoutDays.v)
               ELSE NoneV

\* the flag and the allow-lists an edit check reads from the permissions
EditLists(c) ==
  IF c.permission_type = "edit_main_form"
  THEN [flag |-> c.permissions.editMainForm,
        roles |-> c.permissions.editMainFormRoles,
        users |-> c.permissions.editMainFormUsers]
  ELSE [flag |-> c.permissions.editChildForms,
        roles |-> c.permissions.editChildFormsRoles,
        users |-> c.permissions.editChildFormsUsers]

\* an edit check on a located state node that enables editing
EditCheck ==
  /\ call.fn = "check_state_permissions"
  /\ call.args.permission_type \in {"edit_main_form", "edit_child_forms"}
  /\ call.args.workflows # <<>>
  /\ CurrentStateNode(call.args) # None

\* both allow-lists are non-empty and the user satisfies exactly one of them
OneListOfTwo ==
  LET l == EditLists(call.args)
  IN /\ EditCheck
     /\ l.flag
     /\ l.roles # {}
     /\ l.users # {}
     /\ (call.args.user \in l.users) # (l.roles \cap UserGroups(call.args.user) # {})

(***************************************************************************)
(* C32: with editing enabled and both allow-lists non-empty, a user who    *)
(* satisfies only one of the two lists is refused: the edit branch asks    *)
(* for both, and the check answers false.                                  *)
(***************************************************************************)
C32_BothListsRequired ==
  OneListOfTwo
  => /\ call.out = Returned(FALSE)
     /\ ~GrantedOn(call.args, CurrentStateNode(call.args))

\* C32 as stated: such a user is permitted
C32_OneListSuffices ==
  OneListOfTwo => call.out = Returned(TRUE)

\* u2 is in the user list and holds no role, g1 is asked for
C32_Witness ==
  /\ OneListOfTwo
  /\ call.args.permission_type = "edit_main_form"
  /\ call.args.user = "u2"
  /\ call.args.permissions.editMainFormUsers = {"u2"}
  /\ call.args.permissions.editMainFormRoles = {"g1"}
  /\ call.out = Returned(FALSE)

(***************************************************************************)
(* C33: an edit check on a located state node answers false when the flag  *)
(* is false, false when a non-empty role list holds none of the user's     *)
(* roles, false when a non-empty user list does not hold the user, and     *)
(* true otherwise; an empty list restricts nothing.                        *)
(***************************************************************************)
C33_EditFlagThenLists ==
  EditCheck
  => LET l == EditLists(call.args)
         u == call.args.user
     IN call.out =
          Returned(/\ l.flag
                   /\ ~(l.roles # {} /\ l.roles \cap UserGroups(u) = {})
                   /\ ~(l.users # {} /\ u \notin l.users))

\* a view check on a located state node
ViewCheck ==
  /\ call.fn = "check_state_permissions"
  /\ call.args.permission_type = "view"
  /\ call.args.workflows # <<>>
  /\ CurrentStateNode(call.args) # None

(***************************************************************************)
(* C34: a view check on a located state node answers true exactly when the *)
(* user is the submitter and includeSubmitter is set, or includeApprovers  *)
(* is set and a task of the document, in any status, is assigned to the    *)
(* user or to a role the user holds, or the user is in view.users, or a    *)
(* role the user holds is in view.roles.                                   *)
(***************************************************************************)
C34_ViewGrants ==
  ViewCheck
  => LET v == call.args.permissions.view
         u == call.args.user
     IN call.out =
          Returned(\/ v.includeSubmitter /\ u = call.args.submitted_by
                   \/ /\ v.includeApprovers
                      /\ \E t \in DOMAIN tasks :
                           /\ tasks[t].document = call.args.document
                           /\ \/ u \in tasks[t].assigned_to_users
                              \/ \E g \in UserGroups(u) :
                                   g \in tasks[t].assigned_to_roles
                   \/ u \in v.users
                   \/ \E g \in UserGroups(u) : g \in v.roles)

\* the keys of the actions in the task's own snapshot
SnapshotKeys(task) ==
  {task.available_actions[i].key : i \in DOMAIN task.available_actions}

FirstActionCall(t, u) ==
  [IdleWorker EXCEPT
     !.pc = "intx",
     !.tid = t,
     !.task = tasks[t],
     !.action_key = tasks[t].available_actions[1].key,
     !.user = u,
     !.comment = <<"o", "k">>,
     !.action = MatchedAction(tasks[t], tasks[t].available_actions[1].key),
     !.document = [id |-> tasks[t].document,
                   current_state |-> docs[tasks[t].document]]]

====
